---- MODULE Spec2Model ----
(***************************************************************************)
(* Model of the Raspberry Pi dash: SocketCAN frames -> decoded, de-duped   *)
(* samples -> RPM LED strip.  The repository holds two builds of the       *)
(* program, src/main.cpp (rpi_ws281x strip, progressive bar) and           *)
(* src/backupmain.cpp (SPI strip through SpiWs2812, over-rev flash only).  *)
(* The variable `build' selects one of them for a whole behaviour.         *)
(***************************************************************************)
EXTENDS Integers, Sequences, FiniteSets, TLC

VARIABLES
  build,               \* "main" (src/main.cpp) or "backup" (src/backupmain.cpp)
  pc,                  \* position of main(): init, poll, drain, shutdown, done
  quit,                \* main()'s local `quit'
  i_drain,             \* the drain loop's counter `i'
  clock,               \* SDL_GetTicks(), milliseconds
  last_tick,           \* main()'s local `last_tick'
  sock_,               \* SocketCan::sock_
  g_leds_on,           \* g_leds_on (main.cpp) / g_leds_shown (backupmain.cpp)
  g_flash_on,
  g_last_flash_ms,
  g_last_rpm_framems,
  last_rpm_raw, last_oilp_raw, last_oilt_raw, last_volt_raw,
  g_leds,              \* main.cpp: g_leds.channel[0].leds, 0..LED_COUNT-1 -> uint32
  g_led_grb,           \* backupmain.cpp: g_led_grb, 0..3*LED_COUNT-1 -> uint8
  ws_state,            \* main.cpp: the ws2811 controller: "none", "ready", "finalised"
  fd_, tx_, err_,      \* SpiWs2812's fields
  strip,               \* the frame last handed to the strip: Seq of <<green, red, blue>>
  ui,                  \* the display sink: label/bar element -> value last pushed
  ev,                  \* history: what the last operation did
  hist,                \* history: facts accumulated since start-up
  u16                  \* u16_auto on its own: the call's bytes and results

vars == <<build, pc, quit, i_drain, clock, last_tick, sock_, g_leds_on, g_flash_on,
          g_last_flash_ms, g_last_rpm_framems, last_rpm_raw, last_oilp_raw,
          last_oilt_raw, last_volt_raw, g_leds, g_led_grb, ws_state, fd_, tx_, err_,
          strip, ui, ev, hist, u16>>

(***************************************************************************)
(* Program constants                                                       *)
(***************************************************************************)
LED_COUNT == 19
FLICKER_INTERVAL_MS == 20
RPM_TIMEOUT_MS == 400
MAX_CAN_PER_FRAME == 300
RPM_DISPLAY_MAX == 20000
\* config.h: #define RPM_MAX (int)(RPM_DISPLAY_MAX * 0.85)
RPM_MAX == (RPM_DISPLAY_MAX * 85) \div 100
UNSET_RAW == 65535
LED_BRIGHTNESS_SCALE_PCT == 20
BYTES_PER_COLOR == 4
BYTES_PER_LED == 3 * BYTES_PER_COLOR
RPM_CHANGE_MAIN == 1
RPM_CHANGE_BACKUP == 5
ID_MASK == 536870911
ID_RPM == 8192
ID_OILP == 8193
ID_VOLT == 8194
ID_GEAR == 8195

(***************************************************************************)
(* Bounds of the model                                                     *)
(***************************************************************************)
MaxCycles == 2
MaxReads == 1
MaxDecodeReads == 4
MaxShowLeds == 2
MaxSpiCalls == 3
MaxSkew == 1
MaxLitCalls == 3
MaxBacklog == 2

Byte == 0..255

(***************************************************************************)
(* Fixed-width integer helpers                                             *)
(***************************************************************************)
RECURSIVE BitOr(_, _)
BitOr(a, b) ==
  IF a = 0 THEN b
  ELSE IF b = 0 THEN a
  ELSE (IF a % 2 = 1 \/ b % 2 = 1 THEN 1 ELSE 0) + 2 * BitOr(a \div 2, b \div 2)

Shl(a, k) == a * (2 ^ k)
Shr(a, k) == a \div (2 ^ k)
U8(a) == a % 256
U16(a) == a % 65536
\* uint32_t subtraction, as in `now_ms - g_last_flash_ms'.  For a < b the C value
\* is 2^32 - (b - a), beyond TLC's integers; 2^31 - (b - a) stands for it
\* (both exceed every interval the program compares against).
SubU32(a, b) == IF a >= b THEN a - b ELSE (2147483647 - (b - a)) + 1
AbsInt(a) == IF a < 0 THEN -a ELSE a

(***************************************************************************)
(* CAN field decoding: u16_le, u16_be, u16_auto                            *)
(***************************************************************************)
u16_le(d0, d1) == U16(BitOr(d0, Shl(d1, 8)))

u16_be(d0, d1) == U16(BitOr(Shl(d0, 8), d1))

u16_auto_be_only(d0, d1) == [value |-> u16_be(d0, d1), used_be |-> TRUE]

u16_auto_swapped(d0, d1) ==
  LET le == u16_be(d0, d1) IN
  IF le # 0 THEN [value |-> le, used_be |-> FALSE]
  ELSE [value |-> u16_le(d0, d1), used_be |-> TRUE]

\* returns the value and what *used_be receives
u16_auto(d0, d1) ==
  LET le == u16_le(d0, d1) IN
  IF le # 0 THEN [value |-> le, used_be |-> FALSE]
  ELSE [value |-> u16_be(d0, d1), used_be |-> TRUE]

(***************************************************************************)
(* SpiWs2812: the nibble table and the encoder                             *)
(***************************************************************************)
\* init_lut's inner loop for nibble n, from bit i down to bit 0
RECURSIVE LutLoop(_, _, _)
LutLoop(n, i, out) ==
  IF i < 0 THEN out
  ELSE LutLoop(n, i - 1,
               U16(BitOr(U16(Shl(out, 4)),
                         IF Shr(n, i) % 2 = 1 THEN 14 ELSE 8)))

\* the table init_lut fills, once, before any show() can run
NIBBLE_LUT == [n \in 0..15 |-> LutLoop(n, 3, 0)]

enc_byte_lo_first(v) ==
  LET hi == NIBBLE_LUT[v % 16]
      lo == NIBBLE_LUT[Shr(v, 4) % 16]
  IN  <<U8(Shr(hi, 8)), hi % 256, U8(Shr(lo, 8)), lo % 256>>

\* the four bytes enc_byte appends for colour byte v
enc_byte(v) ==
  LET hi == NIBBLE_LUT[Shr(v, 4) % 16]
      lo == NIBBLE_LUT[v % 16]
  IN  <<U8(Shr(hi, 8)), hi % 256, U8(Shr(lo, 8)), lo % 256>>

\* the encode loop of show(): grb is 0-indexed, LEDs 0..led_count-1
RECURSIVE EncodeLeds(_, _, _)
EncodeLeds(grb, i, led_count) ==
  IF i >= led_count THEN <<>>
  ELSE enc_byte(grb[i * 3 + 0]) \o enc_byte(grb[i * 3 + 1])
       \o enc_byte(grb[i * 3 + 2]) \o EncodeLeds(grb, i + 1, led_count)

\* the <<green, red, blue>> triples a GRB byte array hands to the strip
GrbTriples(grb, led_count) ==
  [k \in 1..led_count |->
     <<grb[(k - 1) * 3 + 0], grb[(k - 1) * 3 + 1], grb[(k - 1) * 3 + 2]>>]

tx_resize_grow_only(tx, n) ==
  IF Len(tx) >= n THEN tx ELSE tx \o [k \in 1..(n - Len(tx)) |-> 0]

\* tx_.resize(n): the first n bytes are kept, new bytes are zero
tx_resize(tx, n) ==
  IF Len(tx) >= n THEN SubSeq(tx, 1, n) ELSE tx \o [k \in 1..(n - Len(tx)) |-> 0]

\* the encode loop writes through p from tx_.data(): enc overwrites the front of r
tx_fill(r, enc) == enc \o SubSeq(r, Len(enc) + 1, Len(r))

\* SpiWs2812::show(grb, led_count) on an object with fields fd, tx, err;
\* wr_ok: ::write accepts the whole buffer.  Gives the object's next fields
\* and the call's observable effects: wrote (the one ::write was issued, with
\* the whole of tx), ret (the return value), latch (usleep(300) ran).
SpiShowCall(fd, tx, err, grb, led_count, wr_ok) ==
  IF fd < 0 THEN
    [tx |-> tx, err |-> "spidev not open", ret |-> FALSE, wrote |-> FALSE,
     latch |-> FALSE]
  ELSE IF led_count <= 0 THEN
    [tx |-> tx, err |-> err, ret |-> TRUE, wrote |-> FALSE, latch |-> FALSE]
  ELSE
    [tx |-> tx_fill(tx_resize(tx, led_count * BYTES_PER_LED),
                    EncodeLeds(grb, 0, led_count)),
     err |-> IF wr_ok THEN err ELSE "spi write short",
     ret |-> wr_ok, wrote |-> TRUE, latch |-> wr_ok]

(***************************************************************************)
(* The LED side of the program as one record E:                            *)
(*   on, buf, strip, fd, tx, err, flash_on, last_flash  (program state)    *)
(*   handed  the frames handed to the strip by the operation, in order     *)
(*   show    what the last SpiWs2812::show call of the operation did       *)
(*   tick    what the RPM-to-LED update decided (intent: the <<r, g, b>>   *)
(*           it chose for each LED it lit)                                 *)
(***************************************************************************)
NoFrame == <<>>
NoShow == [called |-> FALSE, wrote |-> FALSE, ret |-> FALSE, latch |-> FALSE]
\* mode: the state the update leaves the strip engine in: "off", "steady", "flashing"
NoTick == [ran |-> FALSE, rpm |-> 0, now |-> 0, mode |-> "off", flashing |-> FALSE,
           toggled |-> FALSE, phase_before |-> FALSE, last_before |-> 0,
           lit |-> 0, intent |-> <<>>]

AllBlack(f) == \A k \in DOMAIN f : f[k] = <<0, 0, 0>>

\* ------------------------------ src/main.cpp ------------------------------
\* GRB color builder
grb(r, g, b) == BitOr(BitOr(Shl(g, 16), Shl(r, 8)), b)

\* what ws2811_render hands over: per LED the green, red and blue slots of the
\* packed value, in the layout grb() builds (strip_type = GRB)
WsTriples(buf) ==
  [k \in 1..LED_COUNT |->
     <<Shr(buf[k - 1], 16) % 256, Shr(buf[k - 1], 8) % 256, buf[k - 1] % 256>>]

ws2811_render(E) ==
  [E EXCEPT !.strip = WsTriples(E.buf), !.handed = Append(@, WsTriples(E.buf))]

leds_clear_all_kept(E) == E

leds_clear_all(E) == [E EXCEPT !.buf = [k \in 0..(LED_COUNT - 1) |-> 0]]

leds_show_unflagged(E) == ws2811_render(E)

leds_show(E) == [ws2811_render(E) EXCEPT !.on = TRUE]

leds_off(E) ==
  IF ~E.on THEN E
  ELSE [ws2811_render(leds_clear_all(E)) EXCEPT !.on = FALSE]

leds_set_rgb(E, i, r, g, b) ==
  IF i < 0 \/ i >= LED_COUNT THEN E
  ELSE [E EXCEPT !.buf[i] = grb(r, g, b)]

MinInt(a, b) == IF a < b THEN a ELSE b

\* pct = min(1.0f, rpm / (float)RPM_DISPLAY_MAX) as the exact fraction
\* PctNum(rpm) / RPM_DISPLAY_MAX.  Over all 16-bit rpm the float code gives
\* (pct >= 0.85) = (100*PctNum >= 85*RPM_DISPLAY_MAX) and
\* int(std::round(pct * LED_COUNT)) = Lit(rpm) (round half away from zero).
PctNum_unclamped(rpm) == rpm

PctNum(rpm) == MinInt(rpm, RPM_DISPLAY_MAX)

Lit(rpm) == (2 * LED_COUNT * PctNum(rpm) + RPM_DISPLAY_MAX) \div (2 * RPM_DISPLAY_MAX)

should_flash(rpm) == 100 * PctNum(rpm) >= 85 * RPM_DISPLAY_MAX

\* pos = float(i + 1) / float(LED_COUNT); (pos <= 0.85)
PosInRed(i) == 100 * (i + 1) <= 85 * LED_COUNT

\* the colour <<r, g, b>> the loop body chooses for LED i
BandColour(i) == IF PosInRed(i) THEN <<255, 0, 0>> ELSE <<128, 0, 128>>

\* the for loop of updateRPMLEDs_progress, LEDs i..lit-1
RECURSIVE PaintLoop(_, _, _)
PaintLoop(E, i, lit) ==
  IF i >= lit THEN E
  ELSE LET c == BandColour(i)
           r == c[1]
           g == c[2]
           b == c[3]
       IN  PaintLoop(leds_set_rgb(E, i, g, r, b), i + 1, lit)

flash_due_always(now_ms, last) == TRUE

flash_due(now_ms, last) == SubU32(now_ms, last) >= FLICKER_INTERVAL_MS

updateRPMLEDs_progress(E, rpm, now_ms) ==
  LET T0 == [NoTick EXCEPT !.ran = TRUE, !.rpm = rpm, !.now = now_ms,
                           !.phase_before = E.flash_on, !.last_before = E.last_flash]
  IN
  IF rpm = 0 THEN [leds_off(E) EXCEPT !.tick = T0]
  ELSE IF RPM_MAX <= 0 THEN [leds_off(E) EXCEPT !.tick = T0]
  ELSE
    LET lit == Lit(rpm)
        fl == should_flash(rpm)
        tog == fl /\ flash_due(now_ms, E.last_flash)
        E1 == IF tog THEN [E EXCEPT !.last_flash = now_ms, !.flash_on = ~E.flash_on]
              ELSE E
        T1 == [T0 EXCEPT !.flashing = fl, !.toggled = tog, !.lit = lit,
                         !.mode = IF fl THEN "flashing" ELSE "steady"]
    IN  IF fl /\ ~E1.flash_on THEN [leds_off(E1) EXCEPT !.tick = T1]
        ELSE [leds_show(PaintLoop(leds_clear_all(E1), 0, lit)) EXCEPT
                !.tick = [T1 EXCEPT !.intent = [k \in 1..lit |-> BandColour(k - 1)]]]

\* --------------------------- src/backupmain.cpp ---------------------------
\* uint8_t(v * LED_BRIGHTNESS_SCALE) with LED_BRIGHTNESS_SCALE = 0.20f; the
\* float product truncates to floor(v * 20 / 100) for every byte v
Scale(v) == (v * LED_BRIGHTNESS_SCALE_PCT) \div 100

leds_clear_all_bk(E) == [E EXCEPT !.buf = [k \in 0..(LED_COUNT * 3 - 1) |-> 0]]

\* leds_show: (void)g_spi.show(g_led_grb.data(), LED_COUNT); g_leds_shown = true
ShowEffect(E, r, f) ==
  [E EXCEPT !.tx = r.tx, !.err = r.err, !.on = TRUE,
            !.strip = IF r.wrote THEN f ELSE @,
            !.handed = IF r.wrote THEN Append(@, f) ELSE @,
            !.show = [called |-> TRUE, wrote |-> r.wrote, ret |-> r.ret,
                      latch |-> r.latch]]

leds_show_bk(E, wr_ok) ==
  CHOOSE X \in {ShowEffect(E, r, GrbTriples(E.buf, LED_COUNT)) :
                  r \in {SpiShowCall(E.fd, E.tx, E.err, E.buf, LED_COUNT, wr_ok)}} : TRUE

leds_off_bk(E, wr_ok) ==
  IF ~E.on THEN E
  ELSE [leds_show_bk(leds_clear_all_bk(E), wr_ok) EXCEPT !.on = FALSE]

leds_set_rgb_bk(E, i, r, g, b) ==
  IF i < 0 \/ i >= LED_COUNT THEN E
  ELSE [E EXCEPT !.buf[i * 3 + 0] = Scale(g),
                 !.buf[i * 3 + 1] = Scale(r),
                 !.buf[i * 3 + 2] = Scale(b)]

RECURSIVE PaintLoop_bk(_, _)
PaintLoop_bk(E, i) ==
  IF i >= LED_COUNT THEN E
  ELSE PaintLoop_bk(leds_set_rgb_bk(E, i, 255, 0, 0), i + 1)

updateRPMLEDs_overrev_only(E, rpm, now_ms, wr_ok) ==
  LET T0 == [NoTick EXCEPT !.ran = TRUE, !.rpm = rpm, !.now = now_ms,
                           !.phase_before = E.flash_on, !.last_before = E.last_flash]
  IN
  IF rpm = 0 \/ rpm <= RPM_MAX THEN [leds_off_bk(E, wr_ok) EXCEPT !.tick = T0]
  ELSE
    LET tog == flash_due(now_ms, E.last_flash)
        E1 == IF tog THEN [E EXCEPT !.last_flash = now_ms, !.flash_on = ~E.flash_on]
              ELSE E
        T1 == [T0 EXCEPT !.flashing = TRUE, !.toggled = tog, !.lit = LED_COUNT,
                         !.mode = "flashing"]
    IN  IF ~E1.flash_on THEN [leds_off_bk(E1, wr_ok) EXCEPT !.tick = T1]
        ELSE [leds_show_bk(PaintLoop_bk(E1, 0), wr_ok) EXCEPT
                !.tick = [T1 EXCEPT !.intent = [k \in 1..LED_COUNT |-> <<255, 0, 0>>]]]

(***************************************************************************)
(* CAN frames and the transport                                            *)
(***************************************************************************)
\* a can_frame as recv() delivers it.  can_id is kept as its flag bits (EFF, RTR,
\* ERR: bits 31..29) and its low 29 bits; data is 1-indexed, data[k+1] = d[k]
MkFrame(flags, id29, dlc, data) ==
  [flags |-> flags, id29 |-> id29, dlc |-> dlc, data |-> data]

\* SocketCan::read_nonblock on a delivered can_frame f (n > 0):
\* out.id = f.can_id & CAN_EFF_MASK drops the flag bits
read_nonblock(f) ==
  [id |-> f.id29 % (ID_MASK + 1), dlc |-> f.dlc, data |-> f.data]

\* main()'s `uint32_t id = fr->id & 0x1FFFFFFF'
DispatchId(fr) == fr.id % (ID_MASK + 1)

D(fr, k) == fr.data[k + 1]

LeBytes(v) == <<v % 256, v \div 256>>

\* the inputs of the model: RPM values the bus carries, and the other frames
RpmInputs == {0, 1000, 17000, 65535}

RpmFrame(v) == MkFrame({"EFF"}, ID_RPM, 8, LeBytes(v) \o <<0, 0, 90, 0, 0, 0>>)

OtherFrame == MkFrame({}, 291, 8, <<232, 3, 0, 0, 0, 0, 0, 0>>)

\* the frames of the timed specification: RPM frames and an unknown id
LoopFrames == {RpmFrame(v) : v \in RpmInputs} \cup {OtherFrame}

\* the frames of the decoding specification: every id, RPM values around the
\* change thresholds and around the 0xFFFF start value
DecodeRpmInputs == {0, 1000, 1002, 1010, 65533, 65535}

DecodeFrames ==
  {RpmFrame(v) : v \in DecodeRpmInputs}
  \cup {MkFrame({"EFF"}, ID_OILP, 8, <<0, 0, 0, 0, 0, 0, 44, 1>>),
        MkFrame({"EFF"}, ID_OILP, 8, <<0, 0, 0, 0, 0, 0, 255, 255>>),
        MkFrame({"EFF"}, ID_VOLT, 8, <<0, 0, 0, 0, 138, 0, 0, 0>>),
        MkFrame({"EFF"}, ID_VOLT, 8, <<0, 0, 0, 0, 255, 255, 0, 0>>),
        MkFrame({"EFF"}, ID_GEAR, 8, <<3, 0, 0, 0, 0, 0, 0, 0>>),
        MkFrame({"EFF"}, ID_GEAR, 8, <<0, 0, 0, 0, 0, 0, 0, 0>>),
        OtherFrame}

(***************************************************************************)
(* The display sink: the text or value last pushed to each element          *)
(***************************************************************************)
UiInit == [erpm |-> "", erpmbar |-> -1, eoilpressure |-> "", eoiltemperature |-> "",
           evoltage |-> "", egear |-> ""]

\* snprintf "%u"
FmtU(v) == ToString(v)
\* snprintf "%.1f" of a value given in tenths
Fmt1dp(tenths) == ToString(tenths \div 10) \o "." \o ToString(tenths % 10)
\* snprintf "%.1f" of raw/100.0: rounds to the nearest tenth (the inputs hold no
\* raw with raw % 10 = 5, where the double's binary expansion decides)
Fmt1dpOfHundredths(raw) == Fmt1dp((raw + 5) \div 10)

(***************************************************************************)
(* The decoders' change tests                                              *)
(***************************************************************************)
\* last_rpm_raw == 0xFFFF || std::abs(int(rpm) - int(last_rpm_raw)) >= threshold
rpm_accept(last, rpm, threshold) ==
  last = UNSET_RAW \/ AbsInt(rpm - last) >= threshold

RpmThreshold == IF build = "main" THEN RPM_CHANGE_MAIN ELSE RPM_CHANGE_BACKUP

(***************************************************************************)
(* History                                                                 *)
(***************************************************************************)
NoEv == [op |-> "none", now |-> 0, rpm |-> 0, prev_raw |-> 0, accepted |-> FALSE,
         had_accepted |-> FALSE, was_on |-> FALSE, prev_toggle |-> -1, tick |-> NoTick,
         handed |-> <<>>, show |-> NoShow, reads |-> <<>>]

HistInit == [rpm_nz_seen |-> FALSE, t_rpm |-> -1, accepted_any |-> FALSE,
             stale |-> FALSE, closes |-> 0, cycles |-> 0, last_toggle |-> -1,
             calls |-> 0, short |-> FALSE]

\* the LED side of the current state, with an empty operation log
EngineNow ==
  [on |-> g_leds_on, buf |-> IF build = "main" THEN g_leds ELSE g_led_grb,
   strip |-> strip, fd |-> fd_, tx |-> tx_, err |-> err_, flash_on |-> g_flash_on,
   last_flash |-> g_last_flash_ms, handed |-> <<>>, show |-> NoShow, tick |-> NoTick]

\* write an engine record back to the program's variables
Commit(E) ==
  /\ g_leds_on' = E.on
  /\ g_leds' = IF build = "main" THEN E.buf ELSE g_leds
  /\ g_led_grb' = IF build = "main" THEN g_led_grb ELSE E.buf
  /\ strip' = E.strip
  /\ tx_' = E.tx
  /\ err_' = E.err
  /\ g_flash_on' = E.flash_on
  /\ g_last_flash_ms' = E.last_flash

LedsUnchanged ==
  UNCHANGED <<g_leds_on, g_leds, g_led_grb, strip, tx_, err_, g_flash_on,
              g_last_flash_ms>>

EvOf(op, E) ==
  [NoEv EXCEPT !.op = op, !.now = clock, !.was_on = g_leds_on,
               !.prev_toggle = hist.last_toggle, !.tick = E.tick,
               !.handed = E.handed, !.show = E.show]

\* what a step's LED work leaves in the history: the time of a phase toggle,
\* and whether the last write(2) it issued on the SPI device was a short one
HistTick(h, E) ==
  [h EXCEPT !.last_toggle = IF E.tick.toggled THEN E.tick.now ELSE @,
            !.short = IF E.show.wrote THEN ~E.show.ret ELSE @]

(***************************************************************************)
(* Frame handlers.  Each is the whole handler on the frame fr, entered at  *)
(* the current clock; wr_ok is the outcome of the SPI write it may issue.  *)
(***************************************************************************)
\* handle_2000 of src/main.cpp (no LED update) and of src/backupmain.cpp
\* (freshness stamp and updateRPMLEDs_overrev_only on the decoded rpm).  The
\* latter calls SDL_GetTicks() twice: s is the time between the two calls.
handle_2000(fr, wr_ok, s) ==
  LET rpm == u16_auto(D(fr, 0), D(fr, 1)).value
      acc == rpm_accept(last_rpm_raw, rpm, RpmThreshold)
      raw_t == u16_auto(D(fr, 4), D(fr, 5)).value
      ui1 == IF acc THEN [ui EXCEPT !.erpm = FmtU(rpm), !.erpmbar = rpm] ELSE ui
      ui2 == IF raw_t # last_oilt_raw
             THEN [ui1 EXCEPT !.eoiltemperature = Fmt1dp(raw_t * 10)] ELSE ui1
  IN  \E E \in {IF build = "main" THEN EngineNow
                 ELSE updateRPMLEDs_overrev_only(EngineNow, rpm, clock + s, wr_ok)} :
      /\ last_rpm_raw' = IF acc THEN rpm ELSE last_rpm_raw
      /\ last_oilt_raw' = IF raw_t # last_oilt_raw THEN raw_t ELSE last_oilt_raw
      /\ ui' = ui2
      /\ g_last_rpm_framems' = IF build = "main" THEN g_last_rpm_framems ELSE clock
      /\ Commit(E)
      /\ clock' = clock + s
      /\ ev' = [EvOf("handle_2000", E) EXCEPT !.rpm = rpm, !.prev_raw = last_rpm_raw,
                  !.accepted = acc, !.had_accepted = hist.accepted_any,
                  !.reads = IF build = "main" THEN <<>> ELSE <<clock, clock + s>>]
      /\ hist' = [HistTick(hist, E) EXCEPT
                    !.rpm_nz_seen = @ \/ rpm # 0,
                    !.t_rpm = clock,
                    !.accepted_any = @ \/ acc,
                    !.stale = FALSE]
      /\ UNCHANGED <<last_oilp_raw, last_volt_raw>>

handle_2001(fr) ==
  LET raw == u16_auto(D(fr, 6), D(fr, 7)).value
      text == IF build = "main" THEN Fmt1dpOfHundredths(raw) ELSE Fmt1dp(raw * 10)
  IN  /\ last_oilp_raw' = IF raw # last_oilp_raw THEN raw ELSE last_oilp_raw
      /\ ui' = IF raw # last_oilp_raw THEN [ui EXCEPT !.eoilpressure = text] ELSE ui
      /\ ev' = [NoEv EXCEPT !.op = "handle_2001", !.now = clock, !.rpm = raw,
                  !.accepted = (raw # last_oilp_raw), !.was_on = g_leds_on]
      /\ LedsUnchanged
      /\ UNCHANGED <<last_rpm_raw, last_oilt_raw, last_volt_raw, g_last_rpm_framems,
                     hist>>

handle_2002(fr) ==
  LET raw_v == u16_auto(D(fr, 4), D(fr, 5)).value
  IN  /\ last_volt_raw' = IF raw_v # last_volt_raw THEN raw_v ELSE last_volt_raw
      /\ ui' = IF raw_v # last_volt_raw THEN [ui EXCEPT !.evoltage = Fmt1dp(raw_v)]
               ELSE ui
      /\ ev' = [NoEv EXCEPT !.op = "handle_2002", !.now = clock, !.rpm = raw_v,
                  !.accepted = (raw_v # last_volt_raw), !.was_on = g_leds_on]
      /\ LedsUnchanged
      /\ UNCHANGED <<last_rpm_raw, last_oilt_raw, last_oilp_raw, g_last_rpm_framems,
                     hist>>

handle_2003(fr) ==
  LET g0 == D(fr, 0)
      g1 == D(fr, 1)
      g == IF g0 # 0 THEN g0 ELSE g1
  IN  /\ ui' = [ui EXCEPT !.egear = IF g = 0 THEN "N" ELSE FmtU(g)]
      /\ ev' = [NoEv EXCEPT !.op = "handle_2003", !.now = clock, !.rpm = g,
                  !.was_on = g_leds_on]
      /\ LedsUnchanged
      /\ UNCHANGED <<last_rpm_raw, last_oilt_raw, last_oilp_raw, last_volt_raw,
                     g_last_rpm_framems, hist>>

\* the switch's `default: break'
handle_other(fr) ==
  /\ ev' = [NoEv EXCEPT !.op = "ignored", !.now = clock, !.was_on = g_leds_on]
  /\ LedsUnchanged
  /\ UNCHANGED <<last_rpm_raw, last_oilt_raw, last_oilp_raw, last_volt_raw,
                 g_last_rpm_framems, hist, ui>>

(***************************************************************************)
(* SpiWs2812::open and close                                               *)
(***************************************************************************)
OpenOutcomes == {"ok", "open", "mode", "bits", "speed"}
\* the outcomes the program specifications start from
StartOutcomes == {"ok", "open"}

\* the fields after open() on an object whose error text is err: what says
\* which system call fails, if any
SpiOpenCall(what, err) ==
  CASE what = "ok"    -> [fd |-> 3, err |-> err, ret |-> TRUE]
    [] what = "open"  -> [fd |-> -1, err |-> "open spidev failed", ret |-> FALSE]
    [] what = "mode"  -> [fd |-> -1, err |-> "set SPI mode failed", ret |-> FALSE]
    [] what = "bits"  -> [fd |-> -1, err |-> "set bits_per_word failed", ret |-> FALSE]
    [] OTHER          -> [fd |-> -1, err |-> "set speed failed", ret |-> FALSE]

SpiCloseCall(fd) == IF fd >= 0 THEN -1 ELSE fd

(***************************************************************************)
(* main(): the actions                                                     *)
(***************************************************************************)
StartTicks == {5, 20}
Deltas == {20, 400, 401}

ProgVarsAtLoad ==
  /\ pc = "init"
  /\ quit = FALSE
  /\ i_drain = 0
  /\ clock = 0
  /\ last_tick = 0
  /\ sock_ = -1
  /\ g_leds_on = FALSE
  /\ g_flash_on = TRUE
  /\ g_last_flash_ms = 0
  /\ g_last_rpm_framems = 0
  /\ last_rpm_raw = UNSET_RAW
  /\ last_oilp_raw = UNSET_RAW
  /\ last_oilt_raw = UNSET_RAW
  /\ last_volt_raw = UNSET_RAW
  /\ g_leds = [k \in 0..(LED_COUNT - 1) |-> 0]
  /\ g_led_grb = [k \in 0..(LED_COUNT * 3 - 1) |-> 0]
  /\ ws_state = "none"
  /\ fd_ = -1
  /\ tx_ = <<>>
  /\ err_ = ""
  /\ strip = NoFrame
  /\ ui = UiInit
  /\ ev = NoEv
  /\ hist = HistInit

NoU16 == [d0 |-> 0, d1 |-> 0, called |-> FALSE, value |-> 0, used_be |-> FALSE]

Init ==
  /\ build \in {"main", "backup"}
  /\ ProgVarsAtLoad
  /\ u16 = NoU16

\* main() up to the loop: LED set-up, "start blank", CAN open, the first stamps.
\* main.cpp returns 1 when ws2811_init fails; backupmain.cpp goes on without LEDs.
Start(led, can_ok, t0) ==
  /\ pc = "init"
  /\ LET o == IF build = "main" THEN [fd |-> fd_, err |-> err_, ret |-> led = "ok"]
              ELSE SpiOpenCall(led, err_)
         E0 == [EngineNow EXCEPT !.fd = o.fd, !.err = o.err]
     IN  \E E \in {IF ~o.ret THEN E0
                    ELSE IF build = "main" THEN leds_off(E0)
                    ELSE leds_off_bk(E0, TRUE)} :
         /\ fd_' = o.fd
         /\ Commit(E)
         /\ ev' = EvOf("start", E)
         /\ IF build = "main" /\ ~o.ret
            THEN /\ pc' = "failed"
                 /\ UNCHANGED <<ws_state, sock_, clock, last_tick, g_last_rpm_framems>>
            ELSE /\ pc' = "poll"
                 /\ ws_state' = IF build = "main" THEN "ready" ELSE ws_state
                 /\ sock_' = IF can_ok THEN 4 ELSE -1
                 /\ clock' = t0
                 /\ last_tick' = t0
                 /\ g_last_rpm_framems' = t0
  /\ UNCHANGED <<build, quit, i_drain, last_rpm_raw, last_oilp_raw, last_oilt_raw,
                 last_volt_raw, ui, hist, u16>>

\* while(!quit) { while(SDL_PollEvent(&e)) ... : q says whether a quit event came
PollEvents(q) ==
  /\ pc = "poll"
  /\ quit' = (quit \/ q)
  /\ i_drain' = 0
  /\ pc' = "drain"
  /\ ev' = [NoEv EXCEPT !.op = "poll", !.now = clock, !.was_on = g_leds_on]
  /\ LedsUnchanged
  /\ UNCHANGED <<build, clock, last_tick, sock_, g_last_rpm_framems, last_rpm_raw,
                 last_oilp_raw, last_oilt_raw, last_volt_raw, ws_state, fd_, ui, u16,
                 hist>>

CanRead_uncapped(f, cap) ==
  /\ pc = "drain"
  /\ sock_ >= 0
  /\ i_drain < cap
  /\ i_drain' = i_drain + 1
  /\ UNCHANGED <<build, pc, quit, last_tick, sock_, ws_state, fd_, u16>>

\* one pass of the drain loop that reads a frame: read_nonblock, then the switch;
\* cap is the number of frames the socket can deliver in the cycle
CanRead(f, cap) ==
  /\ pc = "drain"
  /\ sock_ >= 0
  /\ i_drain < MAX_CAN_PER_FRAME
  /\ i_drain < cap
  /\ i_drain' = i_drain + 1
  /\ UNCHANGED <<build, pc, quit, last_tick, sock_, ws_state, fd_, u16>>

\* the outcomes of an SPI write a step may issue; src/main.cpp issues none
WriteOutcomes == IF build = "main" THEN {TRUE} ELSE BOOLEAN

\* the milliseconds the clock may advance between two SDL_GetTicks() calls of
\* one handler or of one cycle tail
Skews == 0..MaxSkew

Recv2000(f, wr_ok, s, cap) ==
  /\ wr_ok \in WriteOutcomes
  /\ s \in (IF build = "main" THEN {0} ELSE Skews)
  /\ CanRead(f, cap)
  /\ DispatchId(read_nonblock(f)) = ID_RPM
  /\ handle_2000(read_nonblock(f), wr_ok, s)

Recv2001(f, cap) ==
  /\ CanRead(f, cap)
  /\ DispatchId(read_nonblock(f)) = ID_OILP
  /\ handle_2001(read_nonblock(f))
  /\ UNCHANGED clock

Recv2002(f, cap) ==
  /\ CanRead(f, cap)
  /\ DispatchId(read_nonblock(f)) = ID_VOLT
  /\ handle_2002(read_nonblock(f))
  /\ UNCHANGED clock

Recv2003(f, cap) ==
  /\ CanRead(f, cap)
  /\ DispatchId(read_nonblock(f)) = ID_GEAR
  /\ handle_2003(read_nonblock(f))
  /\ UNCHANGED clock

RecvOther(f, cap) ==
  /\ CanRead(f, cap)
  /\ DispatchId(read_nonblock(f)) \notin {ID_RPM, ID_OILP, ID_VOLT, ID_GEAR}
  /\ handle_other(read_nonblock(f))
  /\ UNCHANGED clock

\* (now - g_last_rpm_framems) > RPM_TIMEOUT_MS
watchdog_stale(now, last) == SubU32(now, last) > RPM_TIMEOUT_MS

\* the rest of a cycle of src/main.cpp once the drain loop has ended: the stamp,
\* the LED update on last_rpm_raw (the watchdog is commented out), the LVGL
\* tick and SDL_Delay.  SDL_GetTicks() is called three times, for the stamp,
\* for the LED update and for `now': s1 and s2 are the times between the calls.
CycleTail_main(s1, s2) ==
  \E E \in {updateRPMLEDs_progress(EngineNow, last_rpm_raw, clock + s1)} :
      /\ g_last_rpm_framems' = clock
      /\ Commit(E)
      /\ last_tick' = clock + s1 + s2
      /\ ev' = [EvOf("cycle", E) EXCEPT !.rpm = last_rpm_raw,
                  !.reads = <<clock, clock + s1, clock + s1 + s2>>]
      /\ hist' = [HistTick(hist, E) EXCEPT
                    !.cycles = @ + 1,
                    !.stale = (hist.t_rpm >= 0 /\ clock - hist.t_rpm > RPM_TIMEOUT_MS)]

\* the rest of a cycle of src/backupmain.cpp: the LED watchdog, the LVGL tick
\* and SDL_Delay
CycleTail_bk(wr_ok) ==
  \E E \in {IF watchdog_stale(clock, g_last_rpm_framems)
             THEN leds_off_bk(EngineNow, wr_ok) ELSE EngineNow} :
      /\ Commit(E)
      /\ last_tick' = clock
      /\ ev' = [EvOf("cycle", E) EXCEPT !.reads = <<clock>>]
      /\ hist' = [HistTick(hist, E) EXCEPT
                    !.cycles = @ + 1,
                    !.stale = (hist.t_rpm >= 0 /\ clock - hist.t_rpm > RPM_TIMEOUT_MS)]
      /\ UNCHANGED g_last_rpm_framems

\* d is the time from the last clock read of a cycle to the start of the next
EndCycle(d, s1, s2, wr_ok) ==
  /\ wr_ok \in WriteOutcomes
  /\ s1 \in (IF build = "main" THEN Skews ELSE {0})
  /\ s2 \in (IF build = "main" THEN Skews ELSE {0})
  /\ pc = "drain"
  /\ hist.cycles < MaxCycles
  /\ IF build = "main" THEN CycleTail_main(s1, s2) ELSE CycleTail_bk(wr_ok)
  /\ clock' = clock + s1 + s2 + d
  /\ pc' = IF quit THEN "shutdown" ELSE "poll"
  /\ UNCHANGED <<build, quit, i_drain, sock_, last_rpm_raw, last_oilp_raw,
                 last_oilt_raw, last_volt_raw, ws_state, fd_, ui, u16>>

\* after the loop: leds_off(); then ws2811_fini (main.cpp) or g_spi.close()
Shutdown(wr_ok) ==
  /\ wr_ok \in WriteOutcomes
  /\ pc = "shutdown"
  /\ \E E \in {IF build = "main" THEN leds_off(EngineNow)
                ELSE leds_off_bk(EngineNow, wr_ok)} :
         /\ Commit(E)
         /\ ev' = EvOf("shutdown", E)
         /\ hist' = [HistTick(hist, E) EXCEPT !.closes = @ + 1]
  /\ ws_state' = IF build = "main" THEN "finalised" ELSE ws_state
  /\ fd_' = IF build = "main" THEN fd_ ELSE SpiCloseCall(fd_)
  /\ pc' = "done"
  /\ UNCHANGED <<build, quit, i_drain, clock, last_tick, sock_, g_last_rpm_framems,
                 last_rpm_raw, last_oilp_raw, last_oilt_raw, last_volt_raw, ui, u16>>

\* the timed program: start-up, cycles of RPM and unknown frames, shutdown; the
\* SDL_GetTicks() calls of one step fall in the same millisecond
Next ==
  \/ \E led \in StartOutcomes, can_ok \in BOOLEAN, t0 \in StartTicks :
       Start(led, can_ok, t0)
  \/ \E q \in BOOLEAN : PollEvents(q)
  \/ \E f \in LoopFrames, wr_ok \in BOOLEAN : Recv2000(f, wr_ok, 0, MaxReads)
  \/ \E f \in LoopFrames : RecvOther(f, MaxReads)
  \/ \E d \in Deltas, wr_ok \in BOOLEAN : EndCycle(d, 0, 0, wr_ok)
  \/ \E wr_ok \in BOOLEAN : Shutdown(wr_ok)

Spec == Init /\ [][Next]_vars

\* the decoders: start-up and one cycle's drain over frames of every id
NextDecode ==
  \/ \E t0 \in StartTicks : Start("ok", TRUE, t0)
  \/ PollEvents(FALSE)
  \/ \E f \in DecodeFrames : Recv2000(f, TRUE, 0, MaxDecodeReads)
  \/ \E f \in DecodeFrames : Recv2001(f, MaxDecodeReads)
  \/ \E f \in DecodeFrames : Recv2002(f, MaxDecodeReads)
  \/ \E f \in DecodeFrames : Recv2003(f, MaxDecodeReads)
  \/ \E f \in DecodeFrames : RecvOther(f, MaxDecodeReads)

SpecDecode == Init /\ [][NextDecode]_vars

(***************************************************************************)
(* u16_auto on its own: the byte pair is drawn at the start, one call      *)
(***************************************************************************)
InitU16 ==
  /\ build \in {"main", "backup"}
  /\ ProgVarsAtLoad
  /\ u16 \in {[NoU16 EXCEPT !.d0 = a, !.d1 = b] : a \in Byte, b \in Byte}

CallU16 ==
  /\ ~u16.called
  /\ u16' = [u16 EXCEPT !.called = TRUE,
                        !.value = u16_auto(u16.d0, u16.d1).value,
                        !.used_be = u16_auto(u16.d0, u16.d1).used_be]
  /\ UNCHANGED <<build, pc, quit, i_drain, clock, last_tick, sock_, g_leds_on,
                 g_flash_on, g_last_flash_ms, g_last_rpm_framems, last_rpm_raw,
                 last_oilp_raw, last_oilt_raw, last_volt_raw, g_leds, g_led_grb,
                 ws_state, fd_, tx_, err_, strip, ui, ev, hist>>

SpecU16 == InitU16 /\ [][CallU16]_vars

(***************************************************************************)
(* SpiWs2812 on its own: open, close and show called in any order, show    *)
(* with any LED count and colour bytes                                     *)
(***************************************************************************)
\* the GRB array of a call: 3*n colour bytes starting at v, 85 apart
ShowPattern(n, v) == [k \in 0..(3 * n - 1) |-> (v + 85 * k) % 256]

\* <<led_count, v>>: the first show of a run sweeps every colour byte, later
\* ones change the LED count
FirstShows ==
  {<<1, v>> : v \in Byte} \cup {<<n, 255>> : n \in (0..MaxShowLeds) \cup {LED_COUNT}}
LaterShows == {<<n, 0>> : n \in (0..MaxShowLeds) \cup {LED_COUNT}}

SpiUnchanged ==
  UNCHANGED <<build, pc, quit, i_drain, clock, last_tick, sock_, g_leds_on,
              g_flash_on, g_last_flash_ms, g_last_rpm_framems, last_rpm_raw,
              last_oilp_raw, last_oilt_raw, last_volt_raw, g_leds, g_led_grb,
              ws_state, strip, ui, u16>>

SpiEv(op, n, arr, r) ==
  [op |-> op, n |-> n, grb |-> arr, fd_before |-> fd_, len_before |-> Len(tx_),
   wrote |-> r.wrote, ret |-> r.ret, latch |-> r.latch,
   written |-> IF r.wrote THEN r.tx ELSE <<>>]

SpiOpen(what) ==
  /\ hist.calls < MaxSpiCalls
  /\ LET o == SpiOpenCall(what, err_)
     IN  /\ fd_' = o.fd
         /\ err_' = o.err
         /\ ev' = SpiEv("open", 0, <<>>, [tx |-> tx_, wrote |-> FALSE, ret |-> o.ret,
                                           latch |-> FALSE])
  /\ hist' = [hist EXCEPT !.calls = @ + 1]
  /\ UNCHANGED tx_
  /\ SpiUnchanged

SpiClose ==
  /\ hist.calls < MaxSpiCalls
  /\ fd_' = SpiCloseCall(fd_)
  /\ ev' = SpiEv("close", 0, <<>>, [tx |-> tx_, wrote |-> FALSE, ret |-> TRUE,
                                     latch |-> FALSE])
  /\ hist' = [hist EXCEPT !.calls = @ + 1]
  /\ UNCHANGED <<tx_, err_>>
  /\ SpiUnchanged

SpiShow(n, v, wr_ok) ==
  /\ hist.calls < MaxSpiCalls
  /\ <<n, v>> \in (IF Len(tx_) = 0 THEN FirstShows ELSE LaterShows)
  /\ wr_ok \in (IF fd_ >= 0 /\ n > 0 THEN BOOLEAN ELSE {TRUE})
  /\ \E r \in {SpiShowCall(fd_, tx_, err_, ShowPattern(n, v), n, wr_ok)} :
       /\ tx_' = r.tx
       /\ err_' = r.err
       /\ ev' = SpiEv("show", n, ShowPattern(n, v), r)
  /\ hist' = [hist EXCEPT !.calls = @ + 1]
  /\ UNCHANGED fd_
  /\ SpiUnchanged

NextSpi ==
  \/ \E what \in OpenOutcomes : SpiOpen(what)
  \/ SpiClose
  \/ \E in \in FirstShows \cup LaterShows, wr_ok \in BOOLEAN :
       SpiShow(in[1], in[2], wr_ok)

SpecSpi == Init /\ [][NextSpi]_vars

(***************************************************************************)
(* Properties                                                              *)
(***************************************************************************)
\* the last frame an operation handed to the strip
LastHanded == ev.handed[Len(ev.handed)]

\* C1: from start-up until a 0x2000 frame with a non-zero RPM has been decoded,
\* the strip stays Off: no frame handed to it holds a non-black LED.
C1_OffUntilFirstRpm ==
  ~hist.rpm_nz_seen =>
    /\ AllBlack(strip)
    /\ \A k \in DOMAIN ev.handed : AllBlack(ev.handed[k])

\* C2: once a main-loop cycle has run at a time more than RPM_TIMEOUT_MS after
\* the last RPM frame was handled, the strip is all-black, and it stays black
\* until the next RPM frame is handled.
C2_StaleForcesBlack == hist.stale => AllBlack(strip)

C4_U16AutoRecovery ==
  u16.called =>
    LET le == u16.d0 + 256 * u16.d1
        be == 256 * u16.d0 + u16.d1
    IN  /\ le # 0 => (u16.value = le /\ ~u16.used_be)
        /\ le = 0 => (u16.value = be /\ u16.used_be)
        /\ u16.used_be <=> le = 0

\* C4 witness: the bytes <<1, 0>> were decoded as little-endian 1, no fallback
C4_Witness ==
  u16.called /\ u16.d0 = 1 /\ u16.d1 = 0 /\ u16.value = 1 /\ ~u16.used_be

\* C5: a decoded rpm is accepted (stored in last_rpm_raw, pushed to the display)
\* iff no rpm was accepted before or it differs from the last accepted rpm by at
\* least the build's change threshold.
C5_RpmDedup ==
  ev.op = "handle_2000" =>
    /\ ev.accepted <=>
         (~ev.had_accepted \/ AbsInt(ev.rpm - ev.prev_raw) >= RpmThreshold)
    /\ ev.accepted => (last_rpm_raw = ev.rpm /\ ui.erpm = FmtU(ev.rpm))
    /\ ~ev.accepted => last_rpm_raw = ev.prev_raw

\* the 4-bit group of serial byte idx: half 0 is sent first
Nibble(bytes, idx, half) ==
  IF half = 0 THEN bytes[idx] \div 16 ELSE bytes[idx] % 16

\* C6: show() emits four serial bytes per colour byte; read as eight 4-bit
\* groups in transmission order they give the bits of the colour byte from the
\* most significant down, 1 as 1110 and 0 as 1000.
C6_EncoderBitMapping ==
  (ev.op = "show" /\ ev.wrote) =>
    /\ Len(ev.written) = 4 * (3 * ev.n)
    /\ \A j \in 0..(3 * ev.n - 1) : \A m \in 0..7 :
         Nibble(ev.written, 4 * j + (m \div 2) + 1, m % 2)
           = (IF Shr(ev.grb[j], 7 - m) % 2 = 1 THEN 14 ELSE 8)

\* C6 witness: colour byte 0xFF was sent as 0xEE 0xEE 0xEE 0xEE
C6_Witness ==
  /\ ev.op = "show" /\ ev.wrote /\ ev.n = 1
  /\ ev.grb[0] = 255
  /\ SubSeq(ev.written, 1, 4) = <<238, 238, 238, 238>>

\* C7: on an open device show(grb, n) with n > 0 issues one write of exactly
\* n * 12 bytes whatever the colours and whatever tx_ held before; with n = 0 it
\* writes nothing and returns true.
C7_EncoderLength ==
  (ev.op = "show" /\ ev.fd_before >= 0) =>
    /\ ev.n > 0 => (ev.wrote /\ Len(ev.written) = ev.n * 12 /\ Len(tx_) = ev.n * 12)
    /\ ev.n = LED_COUNT => Len(ev.written) = 228
    /\ ev.n = 0 => (~ev.wrote /\ ev.written = <<>> /\ ev.ret /\ Len(tx_) = ev.len_before)

\* C7 witness: a one-LED frame written after a 19-LED frame is 12 bytes long
C7_Witness ==
  /\ ev.op = "show" /\ ev.fd_before >= 0 /\ ev.n = 1
  /\ ev.len_before = 228
  /\ Len(ev.written) = 12

\* C8: on every update with a non-zero, non-stale rpm the engine is Flashing
\* iff rpm >= 17000 and Steady iff rpm < 17000.
C8_RedlineNoHysteresis ==
  (ev.tick.ran /\ ev.tick.rpm # 0 /\ ~hist.stale) =>
    /\ ev.tick.mode = "flashing" <=> ev.tick.rpm >= RPM_MAX
    /\ ev.tick.mode = "steady" <=> ev.tick.rpm < RPM_MAX

C10_ShutdownBlanking ==
  pc = "done" =>
    /\ Len(ev.handed) >= 1
    /\ AllBlack(LastHanded)
    /\ hist.closes = 1

\* C11: g_last_rpm_framems is assigned only at start-up and when a 0x2000 frame
\* is handled: no other step (a loop cycle's tail, another frame id, the event
\* poll, shutdown) changes it.
C11_StampOnlyOnRpm ==
  [][g_last_rpm_framems' # g_last_rpm_framems
       => ev'.op \in {"start", "handle_2000"}]_vars

\* the LED side of the program: flag, flash phase, buffers, strip, SPI object
LedState ==
  <<g_leds_on, g_flash_on, g_last_flash_ms, g_leds, g_led_grb, strip, fd_, tx_, err_>>

\* C12: handling a frame changes only the channels the CAN map gives its id:
\* 0x2000 RPM only, 0x2001 oil pressure only, 0x2002 oil temperature and
\* voltage only; a frame of an unrecognised id changes no decoder, display or
\* LED state.
C12_PerIdFraming ==
  [][/\ ev'.op = "handle_2000" =>
          /\ UNCHANGED <<last_oilp_raw, last_oilt_raw, last_volt_raw>>
          /\ ui'.eoilpressure = ui.eoilpressure
          /\ ui'.eoiltemperature = ui.eoiltemperature
          /\ ui'.evoltage = ui.evoltage
          /\ ui'.egear = ui.egear
     /\ ev'.op = "handle_2001" =>
          /\ UNCHANGED <<last_rpm_raw, last_oilt_raw, last_volt_raw, LedState>>
          /\ ui'.erpm = ui.erpm /\ ui'.erpmbar = ui.erpmbar
          /\ ui'.eoiltemperature = ui.eoiltemperature
          /\ ui'.evoltage = ui.evoltage
          /\ ui'.egear = ui.egear
     /\ ev'.op = "handle_2002" =>
          /\ UNCHANGED <<last_rpm_raw, last_oilp_raw, LedState>>
          /\ ui'.erpm = ui.erpm /\ ui'.erpmbar = ui.erpmbar
          /\ ui'.eoilpressure = ui.eoilpressure
          /\ ui'.egear = ui.egear
     /\ ev'.op = "ignored" =>
          UNCHANGED <<last_rpm_raw, last_oilp_raw, last_oilt_raw, last_volt_raw,
                      g_last_rpm_framems, ui, LedState>>]_vars

(***************************************************************************)
(* Short frames: can_dlc below the offsets the handlers decode.  recv       *)
(* delivers the whole can_frame, read_nonblock copies all 8 data bytes.    *)
(***************************************************************************)
ShortFrames ==
  {MkFrame({"EFF"}, ID_RPM, 0, <<0, 0, 0, 0, 0, 0, 0, 0>>),
   MkFrame({"EFF"}, ID_RPM, 1, <<232, 0, 0, 0, 0, 0, 0, 0>>),
   MkFrame({"EFF"}, ID_RPM, 1, <<100, 0, 0, 0, 0, 0, 0, 0>>),
   MkFrame({"EFF"}, ID_OILP, 0, <<0, 0, 0, 0, 0, 0, 0, 0>>),
   MkFrame({"EFF"}, ID_OILP, 6, <<1, 2, 3, 4, 5, 6, 0, 0>>),
   MkFrame({"EFF"}, ID_OILP, 7, <<1, 2, 3, 4, 5, 6, 44, 0>>)}

\* start-up and one cycle's drain in which every 0x2000 frame has dlc < 2 and
\* every 0x2001 frame has dlc < 8
NextShort ==
  \/ \E t0 \in StartTicks : Start("ok", TRUE, t0)
  \/ PollEvents(FALSE)
  \/ \E f \in ShortFrames : Recv2000(f, TRUE, 0, MaxDecodeReads)
  \/ \E f \in ShortFrames : Recv2001(f, MaxDecodeReads)

SpecShort == Init /\ [][NextShort]_vars

\* C13: a frame whose dlc does not cover the field its handler decodes
\* (0x2000 with dlc < 2, 0x2001 with dlc < 8) yields no sample: the decoder
\* state, the display and the LEDs are as they were before the frame.
C13_ShortFramesDropped ==
  [][ev'.op \in {"handle_2000", "handle_2001"} =>
       UNCHANGED <<last_rpm_raw, last_oilp_raw, last_oilt_raw, last_volt_raw, ui,
                   LedState>>]_vars

\* C14: the RPM-to-LED update runs exactly once in every loop cycle, in the
\* step that ends the cycle after the drain: the end of a cycle runs it, and
\* no other step (a frame handler in particular) does.
C14_OneUpdatePerCycle ==
  [][ev'.tick.ran <=> ev'.op = "cycle"]_vars

\* C15: a transport that fails to open does not end the program: start-up never
\* exits on it, and once the loop runs with the SPI device not open no LED write
\* writes a byte, and with the bus socket not open no frame is read.
C15_OpenFailureNonFatal ==
  [][/\ pc' # "failed"
     /\ (pc # "init" /\ build = "backup" /\ fd_ < 0) => ~ev'.show.wrote
     /\ (pc # "init" /\ sock_ < 0) =>
          ev'.op \notin {"handle_2000", "handle_2001", "handle_2002",
                         "handle_2003", "ignored"}]_vars

\* C16: a short write is not taken as delivered: when the last write(2) on the
\* SPI device was short, the next run of the LED update issues a write again
\* with the content it then wants on the strip, all-black included.
C16_ShortWriteRetried ==
  [][(build = "backup" /\ fd_ >= 0 /\ hist.short /\ ev'.tick.ran)
       => ev'.show.wrote]_vars

\* C17: every show() that issues a write(2) on the device, whatever the
\* write's result, performs the latch delay before it returns, so the delay
\* lies between that write and the write of any later show().
C17_LatchAfterEveryWrite ==
  (ev.op = "show" /\ ev.wrote) => ev.latch

(***************************************************************************)
(* The timed program with the clock advancing between the SDL_GetTicks()   *)
(* calls of a step                                                         *)
(***************************************************************************)
NextClock ==
  \/ \E led \in StartOutcomes, t0 \in StartTicks : Start(led, TRUE, t0)
  \/ \E q \in BOOLEAN : PollEvents(q)
  \/ \E f \in LoopFrames, s \in Skews : Recv2000(f, TRUE, s, MaxReads)
  \/ \E d \in Deltas, s1 \in Skews, s2 \in Skews : EndCycle(d, s1, s2, TRUE)
  \/ Shutdown(TRUE)

SpecClock == Init /\ [][NextClock]_vars

\* C18: the clock is sampled once per loop cycle and that one value serves
\* every time-dependent step of the cycle (freshness stamp, flash toggle,
\* staleness test, display tick): the clock values a step uses are all the same
\* value, and a frame handler takes no clock sample of its own.
C18_SingleNowPerCycle ==
  /\ \A i, j \in DOMAIN ev.reads : ev.reads[i] = ev.reads[j]
  /\ ev.op \in {"handle_2000", "handle_2001", "handle_2002", "handle_2003",
                "ignored"} => ev.reads = <<>>

(***************************************************************************)
(* updateRPMLEDs_progress on its own: called on rpm values around the      *)
(* rounding steps of the lit count and around RPM_DISPLAY_MAX              *)
(***************************************************************************)
LitInputs ==
  {k * 263 : k \in 0..80} \cup {1, 527, 1579, 10000, 19473, 19474, 20000, 20001, 65535}

LitCall(rpm) ==
  /\ build = "main"
  /\ pc = "poll"
  /\ hist.calls < MaxLitCalls
  /\ \E E \in {updateRPMLEDs_progress(EngineNow, rpm, clock)} :
       /\ Commit(E)
       /\ ev' = [EvOf("update", E) EXCEPT !.rpm = rpm]
       /\ hist' = [HistTick(hist, E) EXCEPT !.calls = @ + 1]
  /\ clock' = clock + FLICKER_INTERVAL_MS
  /\ UNCHANGED <<build, pc, quit, i_drain, last_tick, sock_, g_last_rpm_framems,
                 last_rpm_raw, last_oilp_raw, last_oilt_raw, last_volt_raw,
                 ws_state, fd_, ui, u16>>

NextLit ==
  \/ \E t0 \in StartTicks : Start("ok", TRUE, t0)
  \/ \E rpm \in LitInputs : LitCall(rpm)

InitLit ==
  /\ Init
  /\ build = "main"

SpecLit == InitLit /\ [][NextLit]_vars

\* C19: the lit count the LED update computes lies in 0..LED_COUNT, and of two
\* successive updates the one with the larger (or equal) rpm never lights
\* fewer LEDs.
C19_LitMonotone ==
  [][ev'.op = "update" =>
       /\ ev'.tick.lit \in 0..LED_COUNT
       /\ (ev.op = "update" /\ ev.tick.rpm <= ev'.tick.rpm)
            => ev.tick.lit <= ev'.tick.lit]_vars

\* a second update, on an rpm above RPM_DISPLAY_MAX, lights the whole strip
C19_Witness ==
  /\ ev.op = "update"
  /\ hist.calls = 2
  /\ ev.tick.rpm > RPM_DISPLAY_MAX
  /\ ev.tick.lit = LED_COUNT

\* the palette of the progressive bar, by the channels of a colour <<r, g, b>>
IsGreen(c) == c[1] = 0 /\ c[2] > 0 /\ c[3] = 0
IsAmber(c) == c[1] > 0 /\ c[2] > 0 /\ c[3] = 0
IsRed(c) == c[1] > 0 /\ c[2] = 0 /\ c[3] = 0
IsPurple(c) == c[1] > 0 /\ c[2] = 0 /\ c[3] > 0

\* C20: every LED the update lights takes its colour from its position
\* pos = (i + 1) / LED_COUNT alone: green up to 50%, amber from 50% to 75%,
\* red from 75% to 85%, purple above 85%.
C20_ProgressiveBands ==
  (ev.tick.ran /\ build = "main") =>
    \A k \in 1..Len(ev.tick.intent) :
      LET c == ev.tick.intent[k]
      IN  IF 100 * k <= 50 * LED_COUNT THEN IsGreen(c)
          ELSE IF 100 * k <= 75 * LED_COUNT THEN IsAmber(c)
          ELSE IF 100 * k <= 85 * LED_COUNT THEN IsRed(c)
          ELSE IsPurple(c)

\* C21: in every frame an update hands to the strip, the LEDs from index lit
\* upwards are black, whatever earlier updates had lit: only LEDs 0..lit-1 can
\* hold a colour.
C21_BeyondLitBlack ==
  (ev.tick.ran /\ build = "main" /\ Len(ev.handed) > 0) =>
    /\ strip = LastHanded
    /\ \A k \in (ev.tick.lit + 1)..LED_COUNT : LastHanded[k] = <<0, 0, 0>>

\* an update that lights one LED while the strip was lit by an earlier update
C21_Witness ==
  /\ ev.op = "update"
  /\ ev.was_on
  /\ hist.calls >= 2
  /\ ev.tick.lit = 1
  /\ Len(ev.handed) > 0
  /\ LastHanded[1] # <<0, 0, 0>>

\* C22: a raw value decoded for oil pressure or voltage is accepted (stored as
\* the channel's last value and pushed to its label) iff the channel has never
\* been set (its label was never written) or the value differs from the last
\* accepted one; otherwise the frame changes neither.  ev'.rpm is the decoded
\* raw value of the step.
C22_ContinuousDedup ==
  [][/\ ev'.op = "handle_2001" =>
          IF ui.eoilpressure = "" \/ ev'.rpm # last_oilp_raw
          THEN last_oilp_raw' = ev'.rpm /\ ui'.eoilpressure # ""
          ELSE UNCHANGED <<last_oilp_raw, ui>>
     /\ ev'.op = "handle_2002" =>
          IF ui.evoltage = "" \/ ev'.rpm # last_volt_raw
          THEN last_volt_raw' = ev'.rpm /\ ui'.evoltage # ""
          ELSE UNCHANGED <<last_volt_raw, ui>>]_vars

(***************************************************************************)
(* The drain loop against a socket that holds more frames than the cap:    *)
(* gear frames and frames of an unknown id                                 *)
(***************************************************************************)
DrainFrames == {MkFrame({"EFF"}, ID_GEAR, 8, <<3, 0, 0, 0, 0, 0, 0, 0>>), OtherFrame}

\* the frames the socket can deliver in one cycle
DrainSupply == MAX_CAN_PER_FRAME + MaxBacklog

NextDrain ==
  \/ \E t0 \in StartTicks : Start("ok", TRUE, t0)
  \/ PollEvents(FALSE)
  \/ \E f \in DrainFrames : Recv2003(f, DrainSupply)
  \/ \E f \in DrainFrames : RecvOther(f, DrainSupply)
  \/ EndCycle(FLICKER_INTERVAL_MS, 0, 0, TRUE)

SpecDrain == Init /\ [][NextDrain]_vars

HandlerOps == {"handle_2000", "handle_2001", "handle_2002", "handle_2003", "ignored"}

\* C23: a cycle reads at most MAX_CAN_PER_FRAME frames; a frame is read only in
\* a step that also dispatches it through the switch, and only while the
\* cycle's drain is running (after the event poll or after another frame, never
\* after the drain has ended); the read count restarts only at the event poll.
C23_BackpressureCap ==
  [][/\ i_drain' <= MAX_CAN_PER_FRAME
     /\ i_drain' # i_drain =>
          \/ i_drain' = 0 /\ ev'.op = "poll"
          \/ /\ i_drain' = i_drain + 1
             /\ ev'.op \in HandlerOps
             /\ ev.op \in HandlerOps \cup {"poll"}
     /\ ev'.op \in HandlerOps => i_drain' = i_drain + 1]_vars

\* the cap is reached: the last read of a cycle that read MAX_CAN_PER_FRAME frames
C23_Witness ==
  /\ i_drain = MAX_CAN_PER_FRAME
  /\ ev.op \in HandlerOps
  /\ pc = "drain"

\* buffer contents an earlier update may have left: all black, all white
AltBufs == {[k \in 0..(LED_COUNT - 1) |-> 0], [k \in 0..(LED_COUNT - 1) |-> 16777215]}

\* C24: the frame on the strip after an update, and the flash phase and toggle
\* time it leaves, are those the same update yields from the same rpm, time,
\* flash phase and toggle time with the shown flag set and any other buffer
\* contents: neither the flag nor the buffer left by earlier updates matters.
C24_TickDeterminism ==
  [][ev'.op = "update" =>
       \A b \in AltBufs :
         \E E2 \in {updateRPMLEDs_progress([EngineNow EXCEPT !.on = TRUE, !.buf = b],
                                           ev'.tick.rpm, ev'.tick.now)} :
           /\ E2.strip = strip'
           /\ E2.flash_on = g_flash_on'
           /\ E2.last_flash = g_last_flash_ms']_vars

\* C25: when the LED transport was initialised, start-up has handed an
\* all-black frame to the strip before the loop runs: the step that starts the
\* program writes one.
C25_StartBlank ==
  (ev.op = "start" /\ pc = "poll" /\ (build = "backup" => fd_ >= 0)) =>
    /\ Len(ev.handed) > 0
    /\ AllBlack(LastHanded)
    /\ strip = LastHanded

\* C26: whenever the shown flag (g_leds_on / g_leds_shown) is false, the most
\* recent frame handed to the strip since start-up, if there is one, is
\* all-black.
C26_ShownFlag ==
  (~g_leds_on /\ strip # <<>>) => AllBlack(strip)

\* the flag has just gone from true to false, by a step that handed over a
\* black frame
C26_Witness ==
  /\ ev.was_on
  /\ ~g_leds_on
  /\ Len(ev.handed) > 0
  /\ strip = LastHanded
  /\ AllBlack(strip)

\* C27: for every byte pair u16_auto returns the value of the plain
\* little-endian read, d0 + 256*d1; the big-endian fallback is taken only for
\* the pair (0, 0) and then yields 0 as well.
C27_AutoEqualsLe ==
  u16.called =>
    /\ u16.value = u16.d0 + 256 * u16.d1
    /\ u16.used_be => (u16.d0 = 0 /\ u16.d1 = 0 /\ u16.value = 0)

\* the fallback is taken, on the pair (0, 0)
C27_Witness ==
  u16.called /\ u16.used_be /\ u16.d0 = 0 /\ u16.d1 = 0 /\ u16.value = 0

====
